---- MODULE Spec2Model ----
(***************************************************************************)
(* Model of homework.py: a polling bot that asks one endpoint for the      *)
(* status of a homework, relays status changes to a chat and reports its   *)
(* own errors to the same chat, each error message once per cache epoch.   *)
(*                                                                         *)
(* Conventions.  Python None is the value None.  A Python string built by  *)
(* an f-string or by + is the sequence of its parts, so that formatting is *)
(* computed and not assumed.  The Russian literals of the source are       *)
(* rendered in English.  An exception is a record [type, msg]; a function  *)
(* that may raise returns [exc, ret]; the exception classes imported from  *)
(* exceptions.py are ordinary subclasses of Exception.  The clock `now` is *)
(* what int(time.time()) returns; it moves while the process sleeps.  A    *)
(* sleep lasts RETRY_PERIOD seconds or overruns by a whole cache lifetime, *)
(* which leaves the program in the state that a day of iterations with a   *)
(* failing status send leaves it in.                                       *)
(***************************************************************************)
EXTENDS Naturals, Integers, Sequences, FiniteSets, TLC

(* ------------------------------ bounds -------------------------------- *)
\* iterations of the while loop that are explored
MaxIter == 3
\* the clock at process start
StartTime == 1000

(* ------------------------- program constants -------------------------- *)
RETRY_PERIOD == 600
ERROR_CACHE_LIFETIME == 60 * 60 * 24
HTTP_OK == 200

None == "<None>"

HOMEWORK_VERDICTS ==
    [approved  |-> "Work checked: the reviewer liked everything. Hooray!",
     reviewing |-> "Work taken for review by the reviewer.",
     rejected  |-> "Work checked: the reviewer has remarks."]

(* ------------------------- Python primitives -------------------------- *)
\* str(x) inside an f-string
Str(x) == IF x = None THEN "None" ELSE x

\* (variant: only an unset variable counts as missing)
Truthy_NotNone(x) == x # None

\* truth value of a string-or-None
Truthy(x) == x # None /\ x # ""

\* dict.get(key) with the default None
Get(d, key) == IF key \in DOMAIN d THEN d[key] ELSE None

NoException == [type |-> "none", msg |-> <<>>]
Raise(type, msg) == [type |-> type, msg |-> msg]

(* ------------------------- environment inputs ------------------------- *)
\* values an environment variable can have: unset, empty, set
TokenValues == {None, "", "set"}

\* homework items the API can return: dicts over two optional keys
HomeworkNames == {None, "Proj1"}
HomeworkStatuses == {"approved", "reviewing", "rejected", "expired"}
Homeworks ==
    { h \in UNION { [K -> HomeworkNames \cup HomeworkStatuses] :
                       K \in SUBSET {"homework_name", "status"} } :
        /\ "homework_name" \in DOMAIN h => h["homework_name"] \in HomeworkNames
        /\ "status" \in DOMAIN h => h["status"] \in HomeworkStatuses }

\* an older item that may follow the first one in the list
OlderHomeworks == { [status |-> "expired"] }

HomeworkLists ==
    {<<>>} \cup { <<h>> : h \in Homeworks }
           \cup { <<h, o>> : h \in Homeworks, o \in OlderHomeworks }

\* a decoded JSON value, as far as the program inspects it
JsonList(items) == [type |-> "list", items |-> items]
JsonOther(type) == [type |-> type, items |-> <<>>]
JsonValues == { JsonList(l) : l \in HomeworkLists }
                 \cup { JsonOther(t) : t \in {"null", "dict"} }

\* decoded bodies: a dict of fields, or something that is not a dict
JsonDict(fields) == [isDict |-> TRUE, fields |-> fields]
NotADict == [isDict |-> FALSE, fields |-> <<>>]
Responses ==
    {NotADict, JsonDict(<<>>)}
      \cup { JsonDict([k \in {"homeworks", "current_date"} |->
                        IF k = "homeworks" THEN v ELSE JsonOther("int")]) :
               v \in JsonValues }
      \cup { JsonDict([k \in {"homeworks"} |-> JsonList(<<>>)]),
             JsonDict([k \in {"current_date"} |-> JsonOther("int")]),
             JsonDict([k \in {"code"} |-> JsonOther("int")]) }

\* what requests.get does: a transport fault, or a response with a status
TransportFaults == {"none", "ConnectionRefusedError", "ConnectionError"}
StatusCodes == {200, 204, 500}

\* one GET as the network sees it: a fault and no response, or a response
\* with a status and a body that decodes or not; the body is drawn where
\* the program reads it
NoRequest ==
    [fault |-> "none", status |-> 0, decodes |-> FALSE, body |-> NotADict]
NetworkOutcomes ==
    { n \in [fault : TransportFaults, status : StatusCodes \cup {0},
             decodes : BOOLEAN, body : Responses] :
        /\ n.fault # "none" => n.status = 0 /\ ~n.decodes
        /\ n.fault = "none" => n.status # 0
        /\ n.body # NotADict => n.status = 200 /\ n.decodes }

\* what bot.send_message does: delivers, or raises
BotFaults == {"none", "Unauthorized"}

\* extra seconds a sleep can last beyond the requested period: none, or a
\* whole cache lifetime (time.sleep may suspend for longer than requested)
SleepOverruns == {0, ERROR_CACHE_LIFETIME}

(* ------------------------------ state --------------------------------- *)
VARIABLES
    pc,                 \* position of main()
    tokens,             \* PRACTICUM_TOKEN, TELEGRAM_TOKEN, TELEGRAM_CHAT_ID
    now,                \* int(time.time())
    errors_occured,     \* module-level dict: message -> first-seen time
    current_timestamp,  \* main: the cursor
    cache_cleared,      \* main: the cache epoch
    response,           \* main: result of get_api_answer
    homeworks,          \* main: result of check_response
    message,            \* main: result of parse_status
    error,              \* main: the exception caught by `except`
    raising,            \* exception propagating out of the except clause
    from_date,          \* parameter of the last GET
    network,            \* what the network did to the GET of this iteration
    iteration,          \* number of the current loop iteration
    sent,               \* bot.send_message calls of the current iteration
    warned,             \* message -> times of its last two [WARNING] sends
    sleeps              \* time.sleep calls since the last GET

vars == <<pc, tokens, now, errors_occured, current_timestamp, cache_cleared,
          response, homeworks, message, error, raising, from_date, network,
          iteration, sent, warned, sleeps>>

locals == <<response, homeworks, message, error>>

(* --------------------------- the functions ---------------------------- *)
\* (variant: the fault of the client is raised as it is, not wrapped)
send_message_Unwrapped(text, botFault) ==
    [call |-> [text |-> text, ok |-> botFault = "none"],
     exc  |-> IF botFault = "none"
              THEN NoException
              ELSE Raise("TelegramError", <<botFault>>)]

\* send_message(bot, message): one call of the messaging client; a fault
\* of the client is wrapped in TelegramAPIException
send_message(text, botFault) ==
    [call |-> [text |-> text, ok |-> botFault = "none"],
     exc  |-> IF botFault = "none"
              THEN NoException
              ELSE Raise("TelegramAPIException",
                         <<"Error sending message: ", botFault>>)]

\* (variant: every 2xx status counts as success)
get_api_answer_Any2xx(timestamp_arg, t, fault, status, decodes, body) ==
    LET timestamp == IF timestamp_arg # 0 THEN timestamp_arg ELSE t
        unavailable(text) ==
            Raise("HTTPError", <<"Resource ENDPOINT unavailable: ", text>>)
        failed(text) ==
            Raise("Exception", <<"API request error: ", text>>)
        exc == IF fault = "ConnectionRefusedError" THEN unavailable(fault)
               ELSE IF fault # "none" THEN failed(fault)
               ELSE IF status \notin 200..299 THEN unavailable("")
               ELSE IF ~decodes THEN failed("JSONDecodeError")
               ELSE NoException
    IN  [params |-> timestamp,
         exc    |-> exc,
         ret    |-> IF exc = NoException THEN body ELSE NotADict]

\* get_api_answer(current_timestamp) at clock t, given what the network
\* does: the transport fault, the status code, whether the body decodes
get_api_answer(timestamp_arg, t, fault, status, decodes, body) ==
    LET timestamp == IF timestamp_arg # 0 THEN timestamp_arg ELSE t
        unavailable(text) ==
            Raise("HTTPError", <<"Resource ENDPOINT unavailable: ", text>>)
        failed(text) ==
            Raise("Exception", <<"API request error: ", text>>)
        exc == IF fault = "ConnectionRefusedError" THEN unavailable(fault)
               ELSE IF fault # "none" THEN failed(fault)
               ELSE IF status # HTTP_OK THEN unavailable("")
               ELSE IF ~decodes THEN failed("JSONDecodeError")
               ELSE NoException
    IN  [params |-> timestamp,
         exc    |-> exc,
         ret    |-> IF exc = NoException THEN body ELSE NotADict]

\* (variant: the `current_date` key is not required)
check_response_NoDateKey(resp) ==
    IF /\ resp.isDict
       /\ Cardinality(DOMAIN resp.fields) # 0
       /\ "homeworks" \in DOMAIN resp.fields
       /\ resp.fields["homeworks"].type = "list"
    THEN [exc |-> NoException, ret |-> resp.fields["homeworks"].items]
    ELSE [exc |-> Raise("IncorrectResponseException",
                        <<"API response does not match the expected one!">>),
          ret |-> <<>>]

\* check_response(response)
check_response(resp) ==
    IF /\ resp.isDict
       /\ Cardinality(DOMAIN resp.fields) # 0
       /\ "homeworks" \in DOMAIN resp.fields
       /\ "current_date" \in DOMAIN resp.fields
       /\ resp.fields["homeworks"].type = "list"
    THEN [exc |-> NoException, ret |-> resp.fields["homeworks"].items]
    ELSE [exc |-> Raise("IncorrectResponseException",
                        <<"API response does not match the expected one!">>),
          ret |-> <<>>]

\* (variant: the status is examined before the name)
parse_status_StatusFirst(homework) ==
    LET homework_name == Get(homework, "homework_name")
        homework_status == Get(homework, "status")
    IN  IF homework_status \notin DOMAIN HOMEWORK_VERDICTS
        THEN [exc |-> Raise("UnknownStatusException",
                            <<"Unknown homework status received: ",
                              Str(homework_status)>>),
              ret |-> <<>>]
        ELSE IF homework_name = None
        THEN [exc |-> Raise("HomeworkMissingException",
                            <<"homework_name is missing: ",
                              Str(homework_name)>>),
              ret |-> <<>>]
        ELSE [exc |-> NoException,
              ret |-> <<"Changed status of \"", Str(homework_name), "\". ",
                        HOMEWORK_VERDICTS[homework_status]>>]

\* parse_status(homework)
parse_status(homework) ==
    LET homework_name == Get(homework, "homework_name")
        homework_status == Get(homework, "status")
    IN  IF homework_name = None
        THEN [exc |-> Raise("HomeworkMissingException",
                            <<"homework_name is missing: ",
                              Str(homework_name)>>),
              ret |-> <<>>]
        ELSE IF homework_status \notin DOMAIN HOMEWORK_VERDICTS
        THEN [exc |-> Raise("UnknownStatusException",
                            <<"Unknown homework status received: ",
                              Str(homework_status)>>),
              ret |-> <<>>]
        ELSE [exc |-> NoException,
              ret |-> <<"Changed status of \"", Str(homework_name), "\". ",
                        HOMEWORK_VERDICTS[homework_status]>>]

\* check_tokens()
check_tokens(toks) == \A i \in DOMAIN toks : Truthy(toks[i])

\* (variant: the cache is not consulted)
NotSeen_Always(cache, msg) == TRUE

\* `if not error` on the result of errors_occured.get(message)
NotSeen(cache, msg) == msg \notin DOMAIN cache \/ cache[msg] = 0

\* (variant: the exception type is not examined)
handle_error_NoTypeCheck(cache, err, t, botFault) ==
    IF NotSeen(cache, err.msg)
    THEN LET r == send_message(<<"[WARNING] ">> \o err.msg, botFault)
         IN  [cache |-> [m \in DOMAIN cache \cup {err.msg} |->
                           IF m = err.msg THEN t ELSE cache[m]],
              calls |-> <<r.call>>,
              exc   |-> r.exc]
    ELSE [cache |-> cache, calls |-> <<>>, exc |-> NoException]

\* handle_error(bot, message) at clock t: the cache afterwards, the calls
\* made to the messaging client, and the exception it lets escape
handle_error(cache, err, t, botFault) ==
    IF err.type = "TelegramAPIException"
    THEN [cache |-> cache, calls |-> <<>>, exc |-> NoException]
    ELSE IF NotSeen(cache, err.msg)
    THEN LET r == send_message(<<"[WARNING] ">> \o err.msg, botFault)
         IN  [cache |-> [m \in DOMAIN cache \cup {err.msg} |->
                           IF m = err.msg THEN t ELSE cache[m]],
              calls |-> <<r.call>>,
              exc   |-> r.exc]
    ELSE [cache |-> cache, calls |-> <<>>, exc |-> NoException]

\* (variant: the operands of the subtraction are swapped)
CacheExpired_Swapped(t, epoch) == epoch - t > ERROR_CACHE_LIFETIME

\* the test of line 175, and the clearing it guards
CacheExpired(t, epoch) == t - epoch > ERROR_CACHE_LIFETIME
ClearedCache(cache, t, epoch) == IF CacheExpired(t, epoch) THEN <<>> ELSE cache

\* (variant: the cursor is never moved)
AdvancedCursor_Stale(cursor, t) == cursor

\* the cursor after a fully successful iteration (line 187)
AdvancedCursor(cursor, t) == t

(* --------------------------- initial state ---------------------------- *)
\* locals that are not bound yet hold a value of their type; each is
\* assigned before it is read
Init ==
    /\ pc = "start"
    /\ tokens \in [1..3 -> TokenValues]
    /\ now = StartTime
    /\ errors_occured = <<>>
    /\ current_timestamp = 0
    /\ cache_cleared = 0
    /\ response = NotADict
    /\ homeworks = <<>>
    /\ message = <<>>
    /\ error = NoException
    /\ raising = NoException
    /\ from_date = 0
    /\ network = NoRequest
    /\ iteration = 0
    /\ sent = <<>>
    /\ warned = <<>>
    /\ sleeps = 0

(* ------------------------------ main() -------------------------------- *)
\* lines 165-171: the token check, then the bot, the cursor and the epoch
Startup ==
    /\ pc = "start"
    /\ IF check_tokens(tokens)
       THEN /\ current_timestamp' = now
            /\ cache_cleared' = now
            /\ pc' = "loop"
       ELSE /\ pc' = "exited"
            /\ UNCHANGED <<current_timestamp, cache_cleared>>
    /\ UNCHANGED <<tokens, now, errors_occured, locals, raising, from_date,
                   network, iteration, sent, warned, sleeps>>

\* lines 173-176: top of the loop body
ClearErrors ==
    /\ pc = "loop"
    /\ iteration < MaxIter
    /\ iteration' = iteration + 1
    /\ errors_occured' = ClearedCache(errors_occured, now, cache_cleared)
    /\ pc' = "fetch"
    /\ UNCHANGED <<tokens, now, current_timestamp, cache_cleared, locals,
                   raising, from_date, network, sent, warned, sleeps>>

\* line 178
GetApiAnswer ==
    /\ pc = "fetch"
    /\ \E n \in NetworkOutcomes :
         LET r == get_api_answer(current_timestamp, now, n.fault, n.status,
                                 n.decodes, n.body)
         IN  /\ from_date' = r.params
             /\ network' = n
             /\ IF r.exc = NoException
                THEN response' = r.ret /\ error' = error /\ pc' = "check"
                ELSE response' = response /\ error' = r.exc /\ pc' = "except"
    /\ sleeps' = 0
    /\ UNCHANGED <<tokens, now, errors_occured, current_timestamp,
                   cache_cleared, homeworks, message, raising, iteration,
                   sent, warned>>

\* line 179
CheckResponse ==
    /\ pc = "check"
    /\ LET r == check_response(response)
       IN  IF r.exc = NoException
           THEN homeworks' = r.ret /\ error' = error /\ pc' = "branch"
           ELSE homeworks' = homeworks /\ error' = r.exc /\ pc' = "except"
    /\ UNCHANGED <<tokens, now, errors_occured, current_timestamp,
                   cache_cleared, response, message, raising, from_date,
                   network, iteration, sent, warned, sleeps>>

\* (variant: the last item of the list is interpreted)
ParseStatus_LastItem ==
    /\ pc = "branch"
    /\ homeworks # <<>>
    /\ LET r == parse_status(homeworks[Len(homeworks)])
       IN  IF r.exc = NoException
           THEN message' = r.ret /\ error' = error /\ pc' = "send"
           ELSE message' = message /\ error' = r.exc /\ pc' = "except"
    /\ UNCHANGED <<tokens, now, errors_occured, current_timestamp,
                   cache_cleared, response, homeworks, raising, from_date,
                   network, iteration, sent, warned, sleeps>>

\* lines 181-182: a non-empty list, its first item is interpreted
ParseStatus ==
    /\ pc = "branch"
    /\ homeworks # <<>>
    /\ LET r == parse_status(homeworks[1])
       IN  IF r.exc = NoException
           THEN message' = r.ret /\ error' = error /\ pc' = "send"
           ELSE message' = message /\ error' = r.exc /\ pc' = "except"
    /\ UNCHANGED <<tokens, now, errors_occured, current_timestamp,
                   cache_cleared, response, homeworks, raising, from_date,
                   network, iteration, sent, warned, sleeps>>

\* (variant: line 187 belongs to the `if` branch)
NoNewStatus_SkipsCursor ==
    /\ pc = "branch"
    /\ homeworks = <<>>
    /\ pc' = "finally"
    /\ UNCHANGED <<tokens, now, errors_occured, current_timestamp,
                   cache_cleared, locals, raising, from_date, network,
                   iteration, sent, warned, sleeps>>

\* lines 184-185: an empty list, only a debug line is logged
NoNewStatus ==
    /\ pc = "branch"
    /\ homeworks = <<>>
    /\ pc' = "advance"
    /\ UNCHANGED <<tokens, now, errors_occured, current_timestamp,
                   cache_cleared, locals, raising, from_date, network,
                   iteration, sent, warned, sleeps>>

\* line 183
SendStatus ==
    /\ pc = "send"
    /\ \E botFault \in BotFaults :
         LET r == send_message(message, botFault)
         IN  /\ sent' = Append(sent, r.call)
             /\ IF r.exc = NoException
                THEN error' = error /\ pc' = "advance"
                ELSE error' = r.exc /\ pc' = "except"
    /\ UNCHANGED <<tokens, now, errors_occured, current_timestamp,
                   cache_cleared, response, homeworks, message, raising,
                   from_date, network, iteration, warned, sleeps>>

\* line 187
AdvanceCursor ==
    /\ pc = "advance"
    /\ current_timestamp' = AdvancedCursor(current_timestamp, now)
    /\ pc' = "finally"
    /\ UNCHANGED <<tokens, now, errors_occured, cache_cleared, locals,
                   raising, from_date, network, iteration, sent, warned,
                   sleeps>>

\* when the [WARNING] for msg was last sent, 0 if never
LastWarned(msg) == IF msg \in DOMAIN warned THEN warned[msg].last ELSE 0

\* lines 188-189: the except clause; what handle_error raises leaves the
\* clause and propagates once the finally clause has run
HandleError ==
    /\ pc = "except"
    /\ \E botFault \in BotFaults :
         LET r == handle_error(errors_occured, error, now, botFault)
         IN  /\ errors_occured' = r.cache
             /\ sent' = sent \o r.calls
             /\ warned' = IF r.calls # <<>>
                          THEN [m \in DOMAIN warned \cup {error.msg} |->
                                  IF m = error.msg
                                  THEN [last |-> now, prev |-> LastWarned(m)]
                                  ELSE warned[m]]
                          ELSE warned
             /\ raising' = r.exc
    /\ pc' = "finally"
    /\ UNCHANGED <<tokens, now, current_timestamp, cache_cleared, locals,
                   from_date, network, iteration, sleeps>>

\* (variant: the sleep is the last statement of the try block)
Sleep_OnlyOnSuccess ==
    /\ pc = "finally"
    /\ IF error = NoException
       THEN /\ \E overrun \in SleepOverruns :
                 now' = now + RETRY_PERIOD + overrun
            /\ sleeps' = sleeps + 1
       ELSE UNCHANGED <<now, sleeps>>
    /\ pc' = IF raising = NoException THEN "loop" ELSE "crashed"
    /\ response' = NotADict
    /\ homeworks' = <<>>
    /\ message' = <<>>
    /\ error' = NoException
    /\ sent' = <<>>
    /\ network' = NoRequest
    /\ UNCHANGED <<tokens, errors_occured, current_timestamp, cache_cleared,
                   raising, from_date, iteration, warned>>

\* lines 190-191: the finally clause, then the next iteration, unless an
\* exception is propagating; the locals are dead from here on
Sleep ==
    /\ pc = "finally"
    /\ \E overrun \in SleepOverruns : now' = now + RETRY_PERIOD + overrun
    /\ sleeps' = sleeps + 1
    /\ pc' = IF raising = NoException THEN "loop" ELSE "crashed"
    /\ response' = NotADict
    /\ homeworks' = <<>>
    /\ message' = <<>>
    /\ error' = NoException
    /\ sent' = <<>>
    /\ network' = NoRequest
    /\ UNCHANGED <<tokens, errors_occured, current_timestamp, cache_cleared,
                   raising, from_date, iteration, warned>>

Next ==
    \/ Startup
    \/ ClearErrors
    \/ GetApiAnswer
    \/ CheckResponse
    \/ ParseStatus
    \/ NoNewStatus
    \/ SendStatus
    \/ AdvanceCursor
    \/ HandleError
    \/ Sleep

Spec == Init /\ [][Next]_vars

TypeOK ==
    /\ pc \in {"start", "exited", "loop", "fetch", "check", "branch", "send",
               "advance", "except", "finally", "crashed"}
    /\ now \in Nat /\ current_timestamp \in Nat /\ cache_cleared \in Nat
    /\ iteration \in 0..MaxIter
    /\ \A m \in DOMAIN errors_occured : errors_occured[m] \in Nat

(* ============================ properties ============================== *)
IsWarning(call) == call.text[1] = "[WARNING] "
WarningFor(msg) == <<"[WARNING] ">> \o msg
Handling == pc = "except" /\ error.type # "TelegramAPIException"

\* C1: once the loop is entered no failure of an iteration ends the
\* process; whichever step raised, the loop sleeps and goes on to the next
\* iteration, so main() is never left by an exception.
LoopSurvivesEveryFailure == pc # "crashed"

\* C2: when an error with message m is handled less than 24 hours after a
\* [WARNING] for m was sent, no second [WARNING] is sent, however long the
\* process has been running.
RepeatedErrorNotifiedOnce ==
    [][(/\ Handling
        /\ LastWarned(error.msg) # 0
        /\ now - LastWarned(error.msg) < ERROR_CACHE_LIFETIME)
       => sent' = sent]_vars

\* C3: an iteration that clears the cache because the epoch is more than
\* 24 hours old sets the epoch to the current time.
ClearResetsEpoch ==
    [][(pc = "loop" /\ pc' = "fetch" /\ CacheExpired(now, cache_cleared))
       => cache_cleared' = now]_vars

\* C4: when an iteration that started more than 24 hours after message m
\* was last notified fails with m, a [WARNING] for m is sent in it.
NotifiedAgainAfterWindow ==
    [][(/\ Handling
        /\ LastWarned(error.msg) # 0
        /\ now - LastWarned(error.msg) > ERROR_CACHE_LIFETIME)
       => /\ Len(sent') = Len(sent) + 1
          /\ sent'[Len(sent')].text = WarningFor(error.msg)]_vars

\* C4 witness: a message notified once is notified again more than 24
\* hours later.
NotifiedAgainAfterWindowWitness ==
    /\ pc = "finally"
    /\ \E m \in DOMAIN warned :
         /\ warned[m].last = now
         /\ warned[m].prev # 0
         /\ now - warned[m].prev > ERROR_CACHE_LIFETIME
         /\ sent = <<[text |-> WarningFor(m), ok |-> TRUE]>>

\* C5: the cursor is moved only by an iteration in which no step raised,
\* and then to the current time; an iteration in which a step raised ends
\* with the cursor it fetched with, and the next fetch asks for the same
\* from_date again.
CursorMovesOnlyOnSuccess ==
    /\ [](pc = "finally" =>
            IF error = NoException
            THEN current_timestamp = now
            ELSE current_timestamp = from_date)
    /\ [][pc = "fetch" /\ pc' # "fetch" => from_date' = current_timestamp]_vars
    /\ [][current_timestamp' # current_timestamp =>
            pc \in {"start", "advance"}]_vars

\* C5 witness: a later iteration whose status send failed ends with the
\* old cursor.
CursorMovesOnlyOnSuccessWitness ==
    /\ pc = "finally"
    /\ iteration > 1
    /\ error.type = "TelegramAPIException"
    /\ current_timestamp = from_date
    /\ current_timestamp < now

\* C6: no key of the error cache is the message of a TelegramAPIException,
\* and handling a TelegramAPIException makes no call to the messaging
\* client.
TelegramMessages ==
    { send_message(<<>>, f).exc.msg : f \in BotFaults \ {"none"} }
DeliveryFailuresNeverRecorded ==
    /\ [](DOMAIN errors_occured \cap TelegramMessages = {})
    /\ [](\A i \in DOMAIN sent, m \in TelegramMessages :
            sent[i].text # WarningFor(m))
    /\ [][pc = "except" /\ error.type = "TelegramAPIException"
            => sent' = sent /\ errors_occured' = errors_occured]_vars

\* C6 witness: a failed status send has been handled.
DeliveryFailuresNeverRecordedWitness ==
    /\ pc = "finally"
    /\ error.type = "TelegramAPIException"
    /\ error.msg \in TelegramMessages
    /\ Len(sent) = 1
    /\ ~sent[1].ok

\* C7: an iteration whose validated list of homeworks is empty sends
\* nothing, records no error, moves the cursor to the current time and goes
\* on to sleep and to the next iteration.
EmptyListIteration ==
    /\ homeworks = <<>>
    /\ check_response(response).exc = NoException
EmptyListIsQuiet ==
    /\ [](pc = "finally" /\ EmptyListIteration =>
            /\ sent = <<>>
            /\ error = NoException
            /\ raising = NoException
            /\ \A m \in DOMAIN errors_occured : errors_occured[m] < now
            /\ current_timestamp = now)
    /\ [][pc = "finally" /\ EmptyListIteration =>
            pc' = "loop" /\ sleeps' = sleeps + 1]_vars

\* C7 witness: a later iteration with an empty list is about to sleep.
EmptyListIsQuietWitness ==
    /\ pc = "finally"
    /\ EmptyListIteration
    /\ iteration > 1
    /\ current_timestamp = now
    /\ errors_occured # <<>>

\* C8: main() exits before the loop exactly when one of the three tokens
\* is unset or empty, and then nothing has been fetched, sent, recorded or
\* slept.
TokenMissing == \E i \in DOMAIN tokens : tokens[i] \in {None, ""}
MissingTokenAbortsBeforeLoop ==
    /\ pc # "start" => (pc = "exited" <=> TokenMissing)
    /\ pc = "exited" =>
         /\ iteration = 0
         /\ from_date = 0
         /\ sent = <<>>
         /\ warned = <<>>
         /\ errors_occured = <<>>
         /\ sleeps = 0
         /\ now = StartTime

\* C8 witness: an empty chat identifier alone stops the program.
MissingTokenAbortsBeforeLoopWitness ==
    /\ pc = "exited"
    /\ tokens = <<"set", "set", "">>

\* C9: check_response returns the `homeworks` list unchanged exactly when
\* the response is a non-empty dict with the keys `homeworks` and
\* `current_date` whose `homeworks` is a list; otherwise it raises
\* IncorrectResponseException and returns nothing.
Malformed(resp) ==
    \/ ~resp.isDict
    \/ DOMAIN resp.fields = {}
    \/ "homeworks" \notin DOMAIN resp.fields
    \/ "current_date" \notin DOMAIN resp.fields
    \/ resp.fields["homeworks"].type # "list"
CheckResponseContract ==
    [][pc = "check" =>
         IF Malformed(response)
         THEN /\ pc' = "except"
              /\ error'.type = "IncorrectResponseException"
              /\ homeworks' = homeworks
         ELSE /\ pc' = "branch"
              /\ error' = error
              /\ homeworks' = response.fields["homeworks"].items]_vars

\* C9 witness: a dict that lacks only `current_date` has been rejected.
CheckResponseContractWitness ==
    /\ pc = "except"
    /\ error.type = "IncorrectResponseException"
    /\ response.isDict
    /\ DOMAIN response.fields = {"homeworks"}
    /\ response.fields["homeworks"].type = "list"

\* C10: parse_status raises HomeworkMissingException when `homework_name`
\* is absent or null, whatever the status; otherwise raises
\* UnknownStatusException when `status` is absent or not one of approved,
\* reviewing, rejected; otherwise returns
\* `Changed status of "{name}". {verdict}` with the verdict of that status.
NameMissing(h) == "homework_name" \notin DOMAIN h \/ h["homework_name"] = None
StatusKnown(h) ==
    "status" \in DOMAIN h /\ h["status"] \in {"approved", "reviewing", "rejected"}
ParseStatusOrder ==
    [][pc = "branch" /\ homeworks # <<>> =>
         LET h == Head(homeworks)
         IN  IF NameMissing(h)
             THEN /\ pc' = "except"
                  /\ error'.type = "HomeworkMissingException"
             ELSE IF ~StatusKnown(h)
             THEN /\ pc' = "except"
                  /\ error'.type = "UnknownStatusException"
             ELSE /\ pc' = "send"
                  /\ message' = <<"Changed status of \"", h["homework_name"],
                                  "\". ", HOMEWORK_VERDICTS[h["status"]]>>]_vars

\* C10 witness: an item with a null name and an unknown status has raised
\* HomeworkMissingException.
ParseStatusOrderWitness ==
    /\ pc = "except"
    /\ error.type = "HomeworkMissingException"
    /\ homeworks # <<>>
    /\ Head(homeworks) = [homework_name |-> None, status |-> "expired"]

\* C11: every iteration, failed or not, ends with one sleep of at least
\* RETRY_PERIOD seconds: a GET that is not the first one is preceded by
\* exactly one sleep since the GET before it, and an iteration that went
\* through handle_error sleeps as well.
OneSleepPerIteration ==
    /\ [](pc = "fetch" => sleeps = IF iteration = 1 THEN 0 ELSE 1)
    /\ [](pc \in {"check", "branch", "send", "advance", "except", "finally"}
            => sleeps = 0)
    /\ [][pc = "except" => pc' = "finally"]_vars
    /\ [][pc = "finally" =>
            sleeps' = sleeps + 1 /\ now' >= now + RETRY_PERIOD]_vars

\* C11 witness: a GET is about to be made one sleep after an iteration in
\* which handle_error sent a warning.
OneSleepPerIterationWitness ==
    /\ pc = "fetch"
    /\ iteration > 1
    /\ sleeps = 1
    /\ \E m \in DOMAIN warned : warned[m].last + RETRY_PERIOD = now

\* C12: handling an error that is not a delivery error and whose message
\* m is not in the cache records m with the current time and makes the
\* one call of the iteration to the messaging client, with the text
\* `[WARNING] ` followed by m; when m is in the cache, the cache is left as
\* it is and nothing is sent.
NewErrorRecordedAndSent ==
    [][Handling =>
         LET m == error.msg
         IN  IF m \notin DOMAIN errors_occured
             THEN /\ DOMAIN errors_occured' = DOMAIN errors_occured \cup {m}
                  /\ errors_occured'[m] = now
                  /\ \A k \in DOMAIN errors_occured :
                       errors_occured'[k] = errors_occured[k]
                  /\ Len(sent') = 1
                  /\ sent'[1].text = WarningFor(m)
             ELSE /\ errors_occured' = errors_occured
                  /\ sent' = <<>>]_vars

\* C12 witness: an error whose message was recorded in an earlier
\* iteration has been handled without a send.
NewErrorRecordedAndSentWitness ==
    /\ pc = "finally"
    /\ error.type \notin {"none", "TelegramAPIException"}
    /\ error.msg \in DOMAIN errors_occured
    /\ errors_occured[error.msg] < now
    /\ Cardinality(DOMAIN errors_occured) > 1
    /\ sent = <<>>

\* C13: with a non-empty validated list, what the iteration sends, the
\* error it ends with, the cursor and the cache entry it leaves are those
\* of parse_status of the item at index 0, whatever items follow it; at
\* most one status notification is sent.
FirstItemResult == parse_status(Head(homeworks))
OnlyFirstItemInterpreted ==
    /\ [][pc = "branch" /\ homeworks # <<>> =>
            IF FirstItemResult.exc = NoException
            THEN pc' = "send" /\ message' = FirstItemResult.ret
            ELSE pc' = "except" /\ error' = FirstItemResult.exc]_vars
    /\ [](pc = "finally" /\ homeworks # <<>> =>
            IF FirstItemResult.exc = NoException
            THEN /\ Len(sent) = 1
                 /\ sent[1].text = FirstItemResult.ret
                 /\ IF sent[1].ok
                    THEN error = NoException /\ current_timestamp = now
                    ELSE /\ error.type = "TelegramAPIException"
                         /\ current_timestamp = from_date
            ELSE /\ error = FirstItemResult.exc
                 /\ current_timestamp = from_date
                 /\ error.msg \in DOMAIN errors_occured
                 /\ Len(sent) <= 1
                 /\ \A i \in DOMAIN sent : sent[i].text = WarningFor(error.msg))

\* C13 witness: the status of the first of two items has been delivered,
\* and the second item is one that parse_status rejects.
OnlyFirstItemInterpretedWitness ==
    /\ pc = "finally"
    /\ Len(homeworks) = 2
    /\ parse_status(homeworks[2]).exc # NoException
    /\ sent = <<[text |-> FirstItemResult.ret, ok |-> TRUE]>>
    /\ error = NoException

\* C14: get_api_answer raises the endpoint-unavailable error (HTTPError)
\* exactly when a response arrived with a non-2xx status, and the fetch
\* error (Exception) exactly when a transport fault prevented a response;
\* with a 2xx response it raises neither and returns the decoded body.
Fetching == pc = "fetch" /\ pc' # "fetch"
RaisedByFetch(type) == pc' = "except" /\ error'.type = type
ErrorKindFollowsFailureKind ==
    [][Fetching =>
         LET n == network'
             responded == n.fault = "none"
         IN  /\ RaisedByFetch("HTTPError")
                  <=> (responded /\ n.status \notin 200..299)
             /\ RaisedByFetch("Exception") <=> ~responded
             /\ responded /\ n.status \in 200..299
                  => pc' = "check" /\ response' = n.body]_vars

\* C14 as amended: HTTPError is raised exactly when the connection was
\* refused or a response arrived with a status other than 200; Exception
\* exactly on any other transport fault or when the body of a 200
\* response cannot be decoded; a 200 response with a decodable body
\* raises neither and its decoded body is returned.
ErrorKindFollowsCode ==
    [][Fetching =>
         LET n == network'
             responded == n.fault = "none"
         IN  /\ RaisedByFetch("HTTPError")
                  <=> \/ n.fault = "ConnectionRefusedError"
                      \/ responded /\ n.status # 200
             /\ RaisedByFetch("Exception")
                  <=> \/ n.fault \notin {"none", "ConnectionRefusedError"}
                      \/ responded /\ n.status = 200 /\ ~n.decodes
             /\ pc' = "check" <=> responded /\ n.status = 200 /\ n.decodes
             /\ pc' = "check" => response' = n.body /\ error' = error]_vars

\* C14 witness: a 204 response has been answered with HTTPError.
ErrorKindFollowsCodeWitness ==
    /\ pc = "except"
    /\ network.fault = "none"
    /\ network.status = 204
    /\ error.type = "HTTPError"

\* C15: an iteration makes at most one call to the messaging client, a
\* status notification or a [WARNING]; a status send that failed is not
\* repeated and no [WARNING] follows a status send in the same iteration.
AtMostOneSendPerIteration ==
    /\ [](Len(sent) <= 1)
    /\ [][pc = "except" /\ sent # <<>> => sent' = sent]_vars
    /\ [][pc = "send" => Len(sent') = 1 /\ pc' \in {"advance", "except"}]_vars

\* C15 witness: the only call of an iteration is a status send that
\* failed, and the iteration is over.
AtMostOneSendPerIterationWitness ==
    /\ pc = "finally"
    /\ sent = <<[text |-> message, ok |-> FALSE]>>
    /\ message # <<>>
    /\ raising = NoException

====
